---- MODULE Spec2Model ----
(***************************************************************************)
(* Model of scripts/data_analysis.py: the four metrics operations          *)
(* calculate_market_metrics, analyze_regional_performance,                 *)
(* calculate_time_series_metrics and segment_customer_base, each run step  *)
(* by step on an in-memory table (a pandas DataFrame).                     *)
(*                                                                         *)
(* A table is a record [none, columns, index, rows]: none is "df is None", *)
(* columns the set of column names, index the row labels, rows the cells.  *)
(* Floating-point results are exact rationals or one of nan / inf / -inf,  *)
(* as IEEE division produces them.                                         *)
(***************************************************************************)
EXTENDS Integers, Sequences, FiniteSets, TLC

VARIABLES op, df, pc, raised, steps, metrics, results, ts_data, ts_metrics, segments

vars == <<op, df, pc, raised, steps, metrics, results, ts_data, ts_metrics, segments>>

(***************************************************************************)
(* Bounds of the explored inputs.                                          *)
(***************************************************************************)
MaxRowsValidate == 2
MaxRowsMarket == 3
MaxRowsRegional == 4
MaxRowsTimeSeries == 3
MaxRowsPrice == 6
MaxRowsCustomer == 4

(***************************************************************************)
(* Values of the categorical columns, each listed in the sort order that   *)
(* groupby / mode / pivot_table use for them.                              *)
(***************************************************************************)
Segments == <<"Luxury", "Sports">>
Years == <<2020, 2021, 2022>>
Regions == <<"Asia", "Europe">>
Models == <<"3 Series", "5 Series", "X3", "X5">>
VehicleTypes == <<"SUV", "Sedan">>
CustomerIDs == <<0, 1, 7>>

Range(s) == {s[i] : i \in DOMAIN s}

Pos(s, x) == CHOOSE i \in DOMAIN s : s[i] = x

AllColumns ==
  {"Model", "Year", "Region", "Market_Segment", "Sales_Volume", "Price_USD",
   "Customer_ID", "Vehicle_Type", "Green_Vehicle", "Color"}

DefaultRow ==
  [Model |-> "X5", Year |-> 2020, Region |-> "Europe", Market_Segment |-> "Luxury",
   Sales_Volume |-> 1, Price_USD |-> 1, Customer_ID |-> 7, Vehicle_Type |-> "SUV",
   Green_Vehicle |-> 0]

\* pandas' default row labels: RangeIndex(n) = 0, 1, ..., n-1
RangeIndex(n) == [i \in 1..n |-> i - 1]

(***************************************************************************)
(* Floating-point values.                                                  *)
(***************************************************************************)
RECURSIVE GCD(_, _)
GCD(a, b) == IF b = 0 THEN a ELSE GCD(b, a % b)

Abs(a) == IF a < 0 THEN -a ELSE a

NaN == [k |-> "nan", n |-> 0, d |-> 1]
Inf == [k |-> "inf", n |-> 0, d |-> 1]
NegInf == [k |-> "ninf", n |-> 0, d |-> 1]

\* the rational a / b, b > 0, in lowest terms
Num(a, b) ==
  LET g == GCD(Abs(a), b)
  IN [k |-> "num", n |-> a \div g, d |-> b \div g]

Zero == Num(0, 1)

\* IEEE a / b for integers a, b: x/0 is inf, -inf or nan, never an exception
FDiv(a, b) ==
  IF b = 0 THEN (IF a > 0 THEN Inf ELSE IF a < 0 THEN NegInf ELSE NaN)
  ELSE IF b < 0 THEN Num(-a, -b)
  ELSE Num(a, b)

\* x + y on floats
FAdd(x, y) ==
  IF x.k = "nan" \/ y.k = "nan" THEN NaN
  ELSE IF x.k = "inf" THEN (IF y.k = "ninf" THEN NaN ELSE Inf)
  ELSE IF x.k = "ninf" THEN (IF y.k = "inf" THEN NaN ELSE NegInf)
  ELSE IF y.k # "num" THEN y
  ELSE Num(x.n * y.d + y.n * x.d, x.d * y.d)

\* x / c for a float x and an integer c > 0
FDivInt(x, c) == IF x.k = "num" THEN Num(x.n, x.d * c) ELSE x

RECURSIVE SumSeq(_)
SumSeq(s) == IF s = <<>> THEN 0 ELSE Head(s) + SumSeq(Tail(s))

RECURSIVE FSumSeq(_)
FSumSeq(s) == IF s = <<>> THEN Zero ELSE FAdd(Head(s), FSumSeq(Tail(s)))

\* Series.mean(): skips nan; nan for a series with no value left
Mean(s) ==
  LET vals == SelectSeq(s, LAMBDA x : x.k # "nan")
  IN IF vals = <<>> THEN NaN ELSE FDivInt(FSumSeq(vals), Len(vals))

(***************************************************************************)
(* Grouping helpers.                                                       *)
(***************************************************************************)
Rows == IF df.none THEN <<>> ELSE df.rows

\* the values of column col, one per row, in row order
Column(col) == [i \in DOMAIN Rows |-> Rows[i][col]]

\* the members of the sorted sequence order that occur in column col
Present(order, col) == SelectSeq(order, LAMBDA x : \E i \in DOMAIN Rows : Rows[i][col] = x)

\* the rows selected by predicate Sel, in row order
RowsWhere(Sel(_)) == SelectSeq(Rows, Sel)

\* sum of an integer column over a sequence of rows
SumOf(rs, col) == SumSeq([i \in DOMAIN rs |-> rs[i][col]])

(***************************************************************************)
(* Validation shared by the four operations.                               *)
(***************************************************************************)
Ops == {"calculate_market_metrics", "analyze_regional_performance",
        "calculate_time_series_metrics", "segment_customer_base"}

Required(o) ==
  CASE o = "calculate_market_metrics" ->
         <<"Market_Segment", "Sales_Volume", "Price_USD", "Year">>
    [] o = "analyze_regional_performance" ->
         <<"Region", "Year", "Sales_Volume", "Model", "Market_Segment">>
    [] o = "calculate_time_series_metrics" ->
         <<"Year", "Sales_Volume", "Price_USD", "Green_Vehicle">>
    [] o = "segment_customer_base" ->
         <<"Price_USD", "Customer_ID", "Vehicle_Type">>

FirstStep(o) ==
  CASE o = "calculate_market_metrics" -> "market_share"
    [] o = "analyze_regional_performance" -> "sales"
    [] o = "calculate_time_series_metrics" -> "ts_data"
    [] o = "segment_customer_base" -> "price_category"

\* DataFrame.empty: some axis has length 0
Empty(d) == d.columns = {} \/ Len(d.rows) = 0

NoError == [type |-> "none", msg |-> "", missing |-> <<>>]

\* the guard without the df.empty test
IsNoneOrEmpty_mut(d) == d.none

\* df is None or df.empty
IsNoneOrEmpty(d) == d.none \/ Empty(d)

\* the guard that opens every operation
CheckEmpty ==
  /\ pc = "start"
  /\ steps' = Append(steps, "check_empty")
  /\ IF IsNoneOrEmpty(df)
       THEN /\ raised' = [type |-> "DataAnalysisError",
                          msg |-> "requires a non-empty DataFrame",
                          missing |-> <<>>]
            /\ pc' = "raised"
       ELSE /\ pc' = "ensure_columns"
            /\ UNCHANGED raised
  /\ UNCHANGED <<op, df, metrics, results, ts_data, ts_metrics, segments>>

\* reports the first missing column only
_missing_mut(d, required) ==
  LET all == SelectSeq(required, LAMBDA c : c \notin d.columns)
  IN IF all = <<>> THEN <<>> ELSE <<Head(all)>>

\* missing = [c for c in required if c not in df.columns]
_missing(d, required) == SelectSeq(required, LAMBDA c : c \notin d.columns)

_ensure_columns ==
  /\ pc = "ensure_columns"
  /\ steps' = Append(steps, "ensure_columns")
  /\ LET missing == _missing(df, Required(op))
     IN IF missing # <<>>
          THEN /\ raised' = [type |-> "DataAnalysisError",
                             msg |-> "Missing required columns",
                             missing |-> missing]
               /\ pc' = "raised"
          ELSE /\ pc' = FirstStep(op)
               /\ UNCHANGED raised
  /\ UNCHANGED <<op, df, metrics, results, ts_data, ts_metrics, segments>>

(***************************************************************************)
(* calculate_market_metrics                                                *)
(***************************************************************************)
NoColumn == [s \in {} |-> 0]

EmptyMetrics ==
  [index |-> <<>>, columns |-> <<>>, Market_Share |-> NoColumn,
   Market_Share_Pct |-> NoColumn, Avg_Price |-> NoColumn, YoY_Growth |-> NoColumn]

SegmentRows(s) == RowsWhere(LAMBDA r : r.Market_Segment = s)

\* df.groupby('Market_Segment')['Sales_Volume'].sum()
SegmentSales == [s \in Range(Present(Segments, "Market_Segment")) |-> SumOf(SegmentRows(s), "Sales_Volume")]

\* Series.sum() of an integer column indexed by the sorted keys idx
Total(idx, col) == SumSeq([i \in DOMAIN idx |-> col[idx[i]]])

\* SharePct as a fraction of the total instead of a percentage
SharePct_mut(share, total) ==
  IF total # 0 THEN [s \in DOMAIN share |-> FDiv(share[s], total)]
  ELSE [s \in DOMAIN share |-> Zero]

\* metrics['Market_Share'] / total * 100 if total else 0
SharePct(share, total) ==
  IF total # 0 THEN [s \in DOMAIN share |-> FDiv(share[s] * 100, total)]
  ELSE [s \in DOMAIN share |-> Zero]

MarketShare ==
  /\ pc = "market_share"
  /\ steps' = Append(steps, "market_share")
  /\ LET idx == Present(Segments, "Market_Segment")
         share == SegmentSales
         total == Total(idx, share)
     IN metrics' = [EmptyMetrics EXCEPT !.index = idx,
                                        !.columns = <<"Market_Share", "Market_Share_Pct">>,
                                        !.Market_Share = share,
                                        !.Market_Share_Pct = SharePct(share, total)]
  /\ pc' = "avg_price"
  /\ UNCHANGED <<op, df, raised, results, ts_data, ts_metrics, segments>>

\* df.groupby('Market_Segment')['Price_USD'].mean()
SegmentAvgPrice ==
  [s \in Range(Present(Segments, "Market_Segment")) |->
     FDiv(SumOf(SegmentRows(s), "Price_USD"), Len(SegmentRows(s)))]

AvgPrice ==
  /\ pc = "avg_price"
  /\ steps' = Append(steps, "avg_price")
  /\ metrics' = [metrics EXCEPT !.columns = Append(@, "Avg_Price"),
                                !.Avg_Price = SegmentAvgPrice]
  /\ pc' = "yoy_growth"
  /\ UNCHANGED <<op, df, raised, results, ts_data, ts_metrics, segments>>

\* one cell of df.pivot_table(values='Sales_Volume', index='Market_Segment',
\* columns='Year', aggfunc='sum'): nan where the segment has no row in the year
PivotCell(s, y) ==
  LET rs == RowsWhere(LAMBDA r : r.Market_Segment = s /\ r.Year = y)
  IN IF rs = <<>> THEN NaN ELSE Num(SumOf(rs, "Sales_Volume"), 1)

\* (last - prev) / prev * 100 on floats
PctGrowth(last, prev) ==
  IF last.k = "nan" \/ prev.k = "nan" THEN NaN
  ELSE FDiv((last.n * prev.d - prev.n * last.d) * 100, prev.n * last.d)

\* YoYColumn without the default for fewer than two years
YoYColumn_mut(idx, years) ==
  IF Len(years) >= 2
    THEN [s \in Range(idx) |->
            PctGrowth(PivotCell(s, years[Len(years)]), PivotCell(s, years[Len(years) - 1]))]
    ELSE [s \in Range(idx) |-> NaN]

\* the YoY_Growth column over the pivot's year columns (sorted ascending)
YoYColumn(idx, years) ==
  IF Len(years) >= 2
    THEN [s \in Range(idx) |->
            PctGrowth(PivotCell(s, years[Len(years)]), PivotCell(s, years[Len(years) - 1]))]
    ELSE [s \in Range(idx) |-> Zero]

YoYGrowth ==
  /\ pc = "yoy_growth"
  /\ steps' = Append(steps, "yoy_growth")
  /\ metrics' = [metrics EXCEPT !.columns = Append(@, "YoY_Growth"),
                                !.YoY_Growth = YoYColumn(metrics.index, Present(Years, "Year"))]
  /\ pc' = "done"
  /\ UNCHANGED <<op, df, raised, results, ts_data, ts_metrics, segments>>

(***************************************************************************)
(* analyze_regional_performance                                            *)
(***************************************************************************)
EmptyResults ==
  [keys |-> <<>>, sales |-> NoColumn, top_models |-> <<>>, segment_share |-> NoColumn]

\* df.groupby(['Region', 'Year'])['Sales_Volume'].sum().unstack()
RegionalSalesTable ==
  [r \in Range(Present(Regions, "Region")) |->
     [y \in Range(Present(Years, "Year")) |->
        LET rs == RowsWhere(LAMBDA w : w.Region = r /\ w.Year = y)
        IN IF rs = <<>> THEN NaN ELSE Num(SumOf(rs, "Sales_Volume"), 1)]]

RegionalSales ==
  /\ pc = "sales"
  /\ steps' = Append(steps, "sales")
  /\ results' = [results EXCEPT !.keys = Append(@, "sales"), !.sales = RegionalSalesTable]
  /\ pc' = "top_models"
  /\ UNCHANGED <<op, df, raised, metrics, ts_data, ts_metrics, segments>>

\* df.groupby(['Region', 'Model'])['Sales_Volume'].sum().reset_index(), as a set
\* of rows: one per (Region, Model) pair that occurs
ModelTotals ==
  {[Region |-> r, Model |-> m,
    Sales_Volume |-> SumOf(RowsWhere(LAMBDA w : w.Region = r /\ w.Model = m), "Sales_Volume")] :
     <<r, m>> \in {<<Rows[i].Region, Rows[i].Model>> : i \in DOMAIN Rows}}

\* sort_values in ascending order
RECURSIVE sort_values_mut(_)
sort_values_mut(S) ==
  IF S = {} THEN {<<>>}
  ELSE UNION {{<<x>> \o t : t \in sort_values_mut(S \ {x})} :
                x \in {z \in S : \A w \in S : z.Sales_Volume <= w.Sales_Volume}}

\* .sort_values('Sales_Volume', ascending=False): every descending order of the
\* rows; the default sort kind is not stable, so rows of equal volume may come
\* out in any order
RECURSIVE sort_values(_)
sort_values(S) ==
  IF S = {} THEN {<<>>}
  ELSE UNION {{<<x>> \o t : t \in sort_values(S \ {x})} :
                x \in {z \in S : \A w \in S : w.Sales_Volume <= z.Sales_Volume}}

TopN == 3

\* .groupby('Region').head(3): the first three rows of every Region, in frame order
head(sorted) ==
  LET keep(i) == Cardinality({j \in 1..(i - 1) : sorted[j].Region = sorted[i].Region}) < TopN
      RECURSIVE build(_)
      build(i) == IF i > Len(sorted) THEN <<>>
                  ELSE (IF keep(i) THEN <<sorted[i]>> ELSE <<>>) \o build(i + 1)
  IN build(1)

TopModels ==
  /\ pc = "top_models"
  /\ steps' = Append(steps, "top_models")
  /\ \E sorted \in sort_values(ModelTotals) :
       results' = [results EXCEPT !.keys = Append(@, "top_models"), !.top_models = head(sorted)]
  /\ pc' = "segment_share"
  /\ UNCHANGED <<op, df, raised, metrics, ts_data, ts_metrics, segments>>

\* df.groupby(['Region', 'Market_Segment'])['Sales_Volume'].sum().unstack().fillna(0)
SegmentShareTable ==
  [r \in Range(Present(Regions, "Region")) |->
     [s \in Range(Present(Segments, "Market_Segment")) |->
        Num(SumOf(RowsWhere(LAMBDA w : w.Region = r /\ w.Market_Segment = s), "Sales_Volume"), 1)]]

SegmentShare ==
  /\ pc = "segment_share"
  /\ steps' = Append(steps, "segment_share")
  /\ results' = [results EXCEPT !.keys = Append(@, "segment_share"),
                                !.segment_share = SegmentShareTable]
  /\ pc' = "done"
  /\ UNCHANGED <<op, df, raised, metrics, ts_data, ts_metrics, segments>>

(***************************************************************************)
(* calculate_time_series_metrics                                           *)
(***************************************************************************)
EmptyTsData ==
  [index |-> <<>>, Sales_Volume |-> NoColumn, Price_USD |-> NoColumn,
   Green_Vehicle |-> NoColumn, Sales_YoY |-> NoColumn, Price_YoY |-> NoColumn]

NoMetrics == [avg_yearly_growth |-> NaN, price_trend |-> NaN, green_vehicle_growth |-> NaN]

YearRows(y) == RowsWhere(LAMBDA r : r.Year = y)

\* df.groupby('Year').agg({'Sales_Volume': 'sum', 'Price_USD': 'mean', 'Green_Vehicle': 'sum'})
TimeSeriesAgg ==
  /\ pc = "ts_data"
  /\ steps' = Append(steps, "ts_data")
  /\ LET idx == Present(Years, "Year")
     IN ts_data' = [EmptyTsData EXCEPT
          !.index = idx,
          !.Sales_Volume = [y \in Range(idx) |-> Num(SumOf(YearRows(y), "Sales_Volume"), 1)],
          !.Price_USD = [y \in Range(idx) |-> FDiv(SumOf(YearRows(y), "Price_USD"), Len(YearRows(y)))],
          !.Green_Vehicle = [y \in Range(idx) |-> SumOf(YearRows(y), "Green_Vehicle")]]
  /\ pc' = "pct_change"
  /\ UNCHANGED <<op, df, raised, metrics, results, ts_metrics, segments>>

\* one entry of Series.pct_change() * 100: cur / prev - 1, in percent
PctOf(cur, prev) == FDiv((cur.n * prev.d - prev.n * cur.d) * 100, prev.n * cur.d)

\* Series.pct_change() * 100 of column col over the sorted index idx: nan first
pct_change(idx, col) ==
  [y \in Range(idx) |->
     IF Pos(idx, y) = 1 THEN NaN ELSE PctOf(col[y], col[idx[Pos(idx, y) - 1]])]

YoYChanges ==
  /\ pc = "pct_change"
  /\ steps' = Append(steps, "pct_change")
  /\ ts_data' = [ts_data EXCEPT
       !.Sales_YoY = pct_change(ts_data.index, ts_data.Sales_Volume),
       !.Price_YoY = pct_change(ts_data.index, ts_data.Price_USD)]
  /\ pc' = "key_metrics"
  /\ UNCHANGED <<op, df, raised, metrics, results, ts_metrics, segments>>

\* the values of a column in index order
Values(idx, col) == [i \in DOMAIN idx |-> col[idx[i]]]

\* GreenGrowth guarded by iloc[0] >= 0 instead of iloc[0] > 0
GreenGrowth_mut(idx, green) ==
  LET first == green[idx[1]]
      last == green[idx[Len(idx)]]
  IN IF first >= 0 THEN FDiv((last - first) * 100, first) ELSE Zero

\* (iloc[-1] / iloc[0] - 1) * 100 if iloc[0] > 0 else 0
GreenGrowth(idx, green) ==
  LET first == green[idx[1]]
      last == green[idx[Len(idx)]]
  IN IF first > 0 THEN FDiv((last - first) * 100, first) ELSE Zero

KeyMetrics ==
  /\ pc = "key_metrics"
  /\ steps' = Append(steps, "key_metrics")
  /\ ts_metrics' =
       [avg_yearly_growth |-> Mean(Values(ts_data.index, ts_data.Sales_YoY)),
        price_trend |-> Mean(Values(ts_data.index, ts_data.Price_YoY)),
        green_vehicle_growth |-> GreenGrowth(ts_data.index, ts_data.Green_Vehicle)]
  /\ pc' = "done"
  /\ UNCHANGED <<op, df, raised, metrics, results, ts_data, segments>>

(***************************************************************************)
(* segment_customer_base                                                   *)
(***************************************************************************)
PriceLabels == <<"Budget", "Value", "Mid-Range", "Premium", "Luxury">>
FrequencyLabels == <<"Low", "Medium", "High">>

EmptySegments ==
  [index |-> <<>>, rows |-> <<>>, columns |-> <<>>, Price_Category |-> <<>>,
   Primary_Type |-> <<>>, Purchase_Frequency |-> <<>>]

\* rank(method='min'): equal values share the lowest rank
rank_mut(v) == [i \in DOMAIN v |-> 1 + Cardinality({j \in DOMAIN v : v[j] < v[i]})]

\* Series.rank(method='first'): 1 + the number of entries that are smaller, or
\* equal and earlier in the series
rank(v) ==
  [i \in DOMAIN v |->
     1 + Cardinality({j \in DOMAIN v : v[j] < v[i] \/ (v[j] = v[i] /\ j < i)})]

\* q times the k-th of the q+1 quantile edges of the ranks 1..n (linear
\* interpolation): q * (1 + (k/q) * (n - 1))
QEdge(n, q, k) == q + k * (n - 1)

\* pd.qcut raises ValueError("Bin edges must be unique") on repeated edges
QcutFails(n, q) == \E k \in 1..q : QEdge(n, q, k) = QEdge(n, q, k - 1)

\* the bin (1..q) of rank r: edges are right-closed, the lowest edge is included
QBin(n, q, r) ==
  IF q * r = QEdge(n, q, 0) THEN 1
  ELSE CHOOSE k \in 1..q : QEdge(n, q, k - 1) < q * r /\ q * r <= QEdge(n, q, k)

\* pd.qcut(ranks, q, labels)
qcut(ranks, q, labels) == [i \in DOMAIN ranks |-> labels[QBin(Len(ranks), q, ranks[i])]]

Min(v) == CHOOSE x \in Range(v) : \A y \in Range(v) : x <= y
Max(v) == CHOOSE x \in Range(v) : \A y \in Range(v) : y <= x

\* the bin (1..bins) of value x in pd.cut(v, bins): equal-width bins over
\* [min, max], right-closed with the lowest value included; a constant series
\* is widened by 0.1% on both sides, which puts its value in the middle bin
CutBin(v, bins, x) ==
  LET mn == Min(v)
      mx == Max(v)
  IN IF mn = mx THEN (bins + 1) \div 2
     ELSE IF x = mn THEN 1
     ELSE CHOOSE k \in 1..bins :
            (k - 1) * (mx - mn) < bins * (x - mn) /\ bins * (x - mn) <= k * (mx - mn)

\* pd.cut(v, bins, labels)
cut(v, bins, labels) == [i \in DOMAIN v |-> labels[CutBin(v, bins, v[i])]]

PriceCategoryColumn(prices) ==
  IF QcutFails(Len(prices), Len(PriceLabels))
    THEN cut(prices, Len(PriceLabels), PriceLabels)
    ELSE qcut(rank(prices), Len(PriceLabels), PriceLabels)

PriceCategory ==
  /\ pc = "price_category"
  /\ steps' = Append(steps, "price_category")
  /\ segments' = [EmptySegments EXCEPT
       !.index = df.index,
       !.rows = df.rows,
       !.columns = <<"Price_Category">>,
       !.Price_Category = PriceCategoryColumn(Column("Price_USD"))]
  /\ pc' = "primary_type"
  /\ UNCHANGED <<op, df, raised, metrics, results, ts_data, ts_metrics>>

CustomerRows(c) == RowsWhere(LAMBDA r : r.Customer_ID = c)

TypeCount(c, t) == Len(SelectSeq(CustomerRows(c), LAMBDA r : r.Vehicle_Type = t))

\* x.mode().iat[0]: the modes come sorted, so the first is the smallest of the
\* most frequent values
Mode(c) ==
  LET best(t) == \A u \in Range(VehicleTypes) : TypeCount(c, u) <= TypeCount(c, t)
  IN VehicleTypes[CHOOSE i \in DOMAIN VehicleTypes :
                    /\ best(VehicleTypes[i])
                    /\ \A j \in 1..(i - 1) : ~best(VehicleTypes[j])]

\* df.groupby('Customer_ID')['Vehicle_Type'].agg(...): a series indexed by Customer_ID
CustomerModes == [c \in Range(Column("Customer_ID")) |-> Mode(c)]

\* frame[col] = series aligns the series on the frame's row labels: a row gets
\* the series entry whose index equals the row's label, nan when there is none
SetItemAligned(index, series) ==
  [i \in DOMAIN index |-> IF index[i] \in DOMAIN series THEN series[index[i]] ELSE "nan"]

PrimaryType ==
  /\ pc = "primary_type"
  /\ steps' = Append(steps, "primary_type")
  /\ segments' = [segments EXCEPT
       !.columns = Append(@, "Primary_Type"),
       !.Primary_Type = SetItemAligned(segments.index, CustomerModes)]
  /\ pc' = "purchase_frequency"
  /\ UNCHANGED <<op, df, raised, metrics, results, ts_data, ts_metrics>>

\* segments['Customer_ID'].map(df.groupby('Customer_ID').size().to_dict())
PurchaseCounts == [i \in DOMAIN Rows |-> Len(CustomerRows(Rows[i].Customer_ID))]

PurchaseFrequencyColumn(counts) ==
  IF QcutFails(Len(counts), Len(FrequencyLabels))
    THEN [i \in DOMAIN counts |-> "Unknown"]
    ELSE qcut(rank(counts), Len(FrequencyLabels), FrequencyLabels)

PurchaseFrequency ==
  /\ pc = "purchase_frequency"
  /\ steps' = Append(steps, "purchase_frequency")
  /\ segments' = [segments EXCEPT
       !.columns = Append(@, "Purchase_Frequency"),
       !.Purchase_Frequency = PurchaseFrequencyColumn(PurchaseCounts)]
  /\ pc' = "done"
  /\ UNCHANGED <<op, df, raised, metrics, results, ts_data, ts_metrics>>

(***************************************************************************)
(* Input tables and specifications: one per operation, plus one that calls *)
(* any operation on tables that may be None, empty or short of columns.    *)
(***************************************************************************)
Table(cols, idx, rows) == [none |-> FALSE, columns |-> cols, index |-> idx, rows |-> rows]

NoneTable == [none |-> TRUE, columns |-> {}, index |-> <<>>, rows |-> <<>>]

Volumes == {0, 1, 2}
Prices == {0, 1, 2, 5}

\* the state in which operation o is called on table d
Call(o, d) ==
  /\ op = o
  /\ df = d
  /\ pc = "start"
  /\ raised = NoError
  /\ steps = <<>>
  /\ metrics = EmptyMetrics
  /\ results = EmptyResults
  /\ ts_data = EmptyTsData
  /\ ts_metrics = NoMetrics
  /\ segments = EmptySegments

MarketRowSet ==
  {[DefaultRow EXCEPT !.Market_Segment = s, !.Year = y, !.Sales_Volume = v] :
     s \in Range(Segments), y \in Range(Years), v \in Volumes}

\* every model sells in Europe, one of them in Asia as well
RegionModelPairs == {<<"Asia", "X5">>} \cup {<<"Europe", m>> : m \in Range(Models)}

RegionalRowSet ==
  {[DefaultRow EXCEPT !.Region = rm[1], !.Model = rm[2], !.Sales_Volume = v] :
     rm \in RegionModelPairs, v \in {1, 2}}

TimeSeriesRowSet ==
  {[DefaultRow EXCEPT !.Year = y, !.Sales_Volume = v, !.Price_USD = p, !.Green_Vehicle = g] :
     y \in Range(Years), v \in {0, 2}, p \in {0, 1}, g \in {0, 1}}

PriceRowSet == {[DefaultRow EXCEPT !.Price_USD = p] : p \in Prices}

CustomerRowSet ==
  {[DefaultRow EXCEPT !.Customer_ID = c, !.Vehicle_Type = t] :
     c \in Range(CustomerIDs), t \in Range(VehicleTypes)}

\* a complete table of 1..maxn rows drawn from RowSet, with default row labels
CallOnRows(o, RowSet, maxn) ==
  \E n \in 1..maxn : \E r \in [1..n -> RowSet] : Call(o, Table(AllColumns, RangeIndex(n), r))

\* None, or a table of default rows with any set of columns and possibly no row
InitValidate ==
  \E o \in Ops :
    \/ Call(o, NoneTable)
    \/ \E cols \in SUBSET AllColumns, n \in 0..MaxRowsValidate :
         Call(o, Table(cols, RangeIndex(n), [i \in 1..n |-> DefaultRow]))

InitMarket == CallOnRows("calculate_market_metrics", MarketRowSet, MaxRowsMarket)
InitRegional == CallOnRows("analyze_regional_performance", RegionalRowSet, MaxRowsRegional)
InitTimeSeries == CallOnRows("calculate_time_series_metrics", TimeSeriesRowSet, MaxRowsTimeSeries)
InitPrice == CallOnRows("segment_customer_base", PriceRowSet, MaxRowsPrice)

\* customer rows labelled 0..n-1 as read_csv leaves them, or by Customer_ID as
\* set_index('Customer_ID', drop=False) leaves them
InitCustomer ==
  \E n \in 1..MaxRowsCustomer : \E r \in [1..n -> CustomerRowSet] :
    \E idx \in {RangeIndex(n), [i \in 1..n |-> r[i].Customer_ID]} :
      Call("segment_customer_base", Table(AllColumns, idx, r))

Validate == CheckEmpty \/ _ensure_columns
calculate_market_metrics == Validate \/ MarketShare \/ AvgPrice \/ YoYGrowth
analyze_regional_performance == Validate \/ RegionalSales \/ TopModels \/ SegmentShare
calculate_time_series_metrics == Validate \/ TimeSeriesAgg \/ YoYChanges \/ KeyMetrics
segment_customer_base == Validate \/ PriceCategory \/ PrimaryType \/ PurchaseFrequency

Init == InitValidate

Next ==
  \/ CheckEmpty
  \/ _ensure_columns
  \/ MarketShare \/ AvgPrice \/ YoYGrowth
  \/ RegionalSales \/ TopModels \/ SegmentShare
  \/ TimeSeriesAgg \/ YoYChanges \/ KeyMetrics
  \/ PriceCategory \/ PrimaryType \/ PurchaseFrequency

Spec == Init /\ [][Next]_vars
SpecMarket == InitMarket /\ [][calculate_market_metrics]_vars
SpecRegional == InitRegional /\ [][analyze_regional_performance]_vars
SpecTimeSeries == InitTimeSeries /\ [][calculate_time_series_metrics]_vars
SpecPrice == InitPrice /\ [][segment_customer_base]_vars
SpecCustomer == InitCustomer /\ [][segment_customer_base]_vars

\* the two operations that compute year-over-year percentages
InitGrowth == InitMarket \/ InitTimeSeries
NextGrowth ==
  \/ Validate
  \/ MarketShare \/ AvgPrice \/ YoYGrowth
  \/ TimeSeriesAgg \/ YoYChanges \/ KeyMetrics
SpecGrowth == InitGrowth /\ [][NextGrowth]_vars

(***************************************************************************)
(* Properties.  They read the input table directly, not through the        *)
(* operators the actions use.                                              *)
(***************************************************************************)
InputRows == df.rows

\* sum of Sales_Volume over the input rows that satisfy P
VolumeWhere(P(_)) ==
  LET RECURSIVE acc(_)
      acc(i) == IF i = 0 THEN 0
                ELSE acc(i - 1) + (IF P(InputRows[i]) THEN InputRows[i].Sales_Volume ELSE 0)
  IN acc(Len(InputRows))

GrandTotal == VolumeWhere(LAMBDA r : TRUE)

InputSegments == {InputRows[i].Market_Segment : i \in DOMAIN InputRows}
InputYears == {InputRows[i].Year : i \in DOMAIN InputRows}

\* x is the rational a / b (b > 0)
IsRatio(x, a, b) == x.k = "num" /\ x.n * b = a * x.d

HasMarketShare == op = "calculate_market_metrics" /\ metrics.columns # <<>>

\* C1: once calculate_market_metrics has computed the market share of a valid
\* non-empty table, the output has one row per input segment, the Market_Share
\* values sum to the total Sales_Volume of the input, every Market_Share_Pct is
\* Market_Share / grand total x 100 and the percentages sum to 100 when the
\* total is positive, and every Market_Share_Pct is 0 when the total is 0.
C1_MarketShare ==
  HasMarketShare =>
    /\ Range(metrics.index) = InputSegments
    /\ DOMAIN metrics.Market_Share = InputSegments
    /\ DOMAIN metrics.Market_Share_Pct = InputSegments
    /\ SumSeq([i \in DOMAIN metrics.index |-> metrics.Market_Share[metrics.index[i]]]) = GrandTotal
    /\ GrandTotal > 0 =>
         /\ \A s \in InputSegments :
              IsRatio(metrics.Market_Share_Pct[s], metrics.Market_Share[s] * 100, GrandTotal)
         /\ FSumSeq([i \in DOMAIN metrics.index |-> metrics.Market_Share_Pct[metrics.index[i]]])
              = Num(100, 1)
    /\ GrandTotal = 0 => \A s \in InputSegments : metrics.Market_Share_Pct[s] = Zero

\* two segments with different positive shares
C1_Witness ==
  /\ HasMarketShare
  /\ pc = "done"
  /\ Cardinality(InputSegments) = 2
  /\ \A s \in InputSegments : metrics.Market_Share[s] > 0
  /\ \E s, t \in InputSegments : metrics.Market_Share[s] < metrics.Market_Share[t]

\* C9: when every row of the input of calculate_market_metrics has the same
\* Year, the returned table has a YoY_Growth column that is 0 for every segment
\* of the input.
C9_SingleYearGrowth ==
  (op = "calculate_market_metrics" /\ pc = "done" /\ Cardinality(InputYears) = 1) =>
    /\ "YoY_Growth" \in Range(metrics.columns)
    /\ DOMAIN metrics.YoY_Growth = InputSegments
    /\ \A s \in InputSegments : metrics.YoY_Growth[s] = Zero

\* a single-year table with two segments has been processed
C9_Witness ==
  /\ op = "calculate_market_metrics"
  /\ pc = "done"
  /\ Cardinality(InputYears) = 1
  /\ Cardinality(InputSegments) = 2
  /\ Len(InputRows) >= 3
  /\ \A s \in InputSegments : metrics.YoY_Growth[s] = Zero

MaxOf(S) == CHOOSE x \in S : \A y \in S : y <= x
MinOf(S) == CHOOSE x \in S : \A y \in S : x <= y

\* sum of column col over the input rows of year y
YearSum(y, col) ==
  LET RECURSIVE acc(_)
      acc(i) == IF i = 0 THEN 0
                ELSE acc(i - 1) + (IF InputRows[i].Year = y THEN InputRows[i][col] ELSE 0)
  IN acc(Len(InputRows))

NullOrZero(x) == x = NaN \/ x = Zero

\* C5: a percentage whose denominator is zero is null or zero.  In
\* calculate_market_metrics, YoY_Growth of a segment whose summed Sales_Volume
\* in the year before the latest is 0 is null or 0; in
\* calculate_time_series_metrics, Sales_YoY (Price_YoY) of a year whose
\* preceding year has a summed volume (mean price) of 0 is null or 0.
C5_ZeroDenominator ==
  /\ (op = "calculate_market_metrics" /\ pc = "done" /\ Cardinality(InputYears) >= 2) =>
       LET prev == MaxOf(InputYears \ {MaxOf(InputYears)})
       IN \A s \in InputSegments :
            VolumeWhere(LAMBDA r : r.Market_Segment = s /\ r.Year = prev) = 0
              => NullOrZero(metrics.YoY_Growth[s])
  /\ (op = "calculate_time_series_metrics" /\ pc = "done") =>
       \A y \in InputYears \ {MinOf(InputYears)} :
         LET prev == MaxOf({z \in InputYears : z < y})
         IN /\ YearSum(prev, "Sales_Volume") = 0 => NullOrZero(ts_data.Sales_YoY[y])
            /\ YearSum(prev, "Price_USD") = 0 => NullOrZero(ts_data.Price_YoY[y])

\* C7: when every year of the input of calculate_time_series_metrics has the
\* same summed Sales_Volume, the call returns without raising and
\* avg_yearly_growth is 0.
C7_ConstantVolume ==
  (/\ op = "calculate_time_series_metrics"
   /\ pc = "done"
   /\ \A y, z \in InputYears : YearSum(y, "Sales_Volume") = YearSum(z, "Sales_Volume")) =>
    /\ raised = NoError
    /\ ts_metrics.avg_yearly_growth = Zero

\* C8: green_vehicle_growth is 0 when the Green_Vehicle sum of the earliest year
\* is 0, and otherwise (latest year's sum / earliest year's sum - 1) x 100.
C8_GreenGrowth ==
  (op = "calculate_time_series_metrics" /\ pc = "done") =>
    LET first == YearSum(MinOf(InputYears), "Green_Vehicle")
        last == YearSum(MaxOf(InputYears), "Green_Vehicle")
    IN IF first = 0 THEN ts_metrics.green_vehicle_growth = Zero
       ELSE IsRatio(ts_metrics.green_vehicle_growth, (last - first) * 100, first)

\* three years, none green in the earliest, some green later: the growth is 0
C8_Witness ==
  /\ op = "calculate_time_series_metrics"
  /\ pc = "done"
  /\ Cardinality(InputYears) = 3
  /\ YearSum(MinOf(InputYears), "Green_Vehicle") = 0
  /\ YearSum(MaxOf(InputYears), "Green_Vehicle") > 0
  /\ ts_metrics.green_vehicle_growth = Zero

InputRegions == {InputRows[i].Region : i \in DOMAIN InputRows}
InputModels(r) == {InputRows[i].Model : i \in {j \in DOMAIN InputRows : InputRows[j].Region = r}}

ModelVolume(r, m) == VolumeWhere(LAMBDA w : w.Region = r /\ w.Model = m)

HasTopModels == op = "analyze_regional_performance" /\ "top_models" \in Range(results.keys)

\* the positions of top_models that belong to Region r
TopOf(r) == {i \in DOMAIN results.top_models : results.top_models[i].Region = r}

\* C6: top_models holds at most 3 rows per Region, each the summed Sales_Volume
\* of one model sold in that Region; a model of the Region is left out only
\* when 3 are listed and none of the listed has a smaller sum than it; and the
\* rows of a Region appear in descending order of summed Sales_Volume.
C6_TopModels ==
  HasTopModels =>
    \A r \in InputRegions :
      LET top == results.top_models
      IN /\ Cardinality(TopOf(r)) <= 3
         /\ \A i \in TopOf(r) :
              /\ top[i].Model \in InputModels(r)
              /\ top[i].Sales_Volume = ModelVolume(r, top[i].Model)
         /\ \A i, j \in TopOf(r) : i # j => top[i].Model # top[j].Model
         /\ \A m \in InputModels(r) :
              (\A i \in TopOf(r) : top[i].Model # m) =>
                /\ Cardinality(TopOf(r)) = 3
                /\ \A i \in TopOf(r) : ModelVolume(r, m) <= top[i].Sales_Volume
         /\ \A i, j \in TopOf(r) : i < j => top[i].Sales_Volume >= top[j].Sales_Volume

\* a Region with four models, three of them listed with different sums, the
\* fourth left out
C6_Witness ==
  /\ HasTopModels
  /\ \E r \in InputRegions :
       /\ Cardinality(InputModels(r)) = 4
       /\ Cardinality(TopOf(r)) = 3
       /\ \E i, j \in TopOf(r) :
            results.top_models[i].Sales_Volume > results.top_models[j].Sales_Volume

EmptyInput == df.none \/ Len(df.rows) = 0 \/ df.columns = {}

NothingComputed ==
  /\ metrics = EmptyMetrics
  /\ results = EmptyResults
  /\ ts_data = EmptyTsData
  /\ ts_metrics = NoMetrics
  /\ segments = EmptySegments

\* C3: an operation called with None or an empty table raises the
\* DataAnalysisError of the emptiness check and runs no other step: no column
\* check, no computation, no result.
C3_EmptyRaises ==
  EmptyInput =>
    /\ pc \in {"start", "raised"}
    /\ steps \in {<<>>, <<"check_empty">>}
    /\ NothingComputed
    /\ pc = "raised" =>
         /\ raised.type = "DataAnalysisError"
         /\ raised.msg = "requires a non-empty DataFrame"
         /\ raised.missing = <<>>

\* a table without rows that also lacks a required column got the emptiness error
C3_Witness ==
  /\ ~df.none
  /\ Len(df.rows) = 0
  /\ df.columns # {}
  /\ \E c \in Range(Required(op)) : c \notin df.columns
  /\ pc = "raised"
  /\ raised.msg = "requires a non-empty DataFrame"

MissingColumns == {c \in Range(Required(op)) : c \notin df.columns}

\* C4: an operation called with a non-empty table that lacks required columns
\* raises the DataAnalysisError that lists exactly the missing required columns,
\* each once, and computes nothing.
C4_MissingColumns ==
  (~EmptyInput /\ MissingColumns # {}) =>
    /\ pc \in {"start", "ensure_columns", "raised"}
    /\ NothingComputed
    /\ pc = "raised" =>
         /\ raised.type = "DataAnalysisError"
         /\ raised.msg = "Missing required columns"
         /\ Range(raised.missing) = MissingColumns
         /\ Len(raised.missing) = Cardinality(MissingColumns)

\* two required columns missing, one present, and a column nobody requires
C4_Witness ==
  /\ ~EmptyInput
  /\ Cardinality(MissingColumns) = 2
  /\ \E c \in Range(Required(op)) : c \in df.columns
  /\ "Color" \in df.columns
  /\ pc = "raised"
  /\ Range(raised.missing) = MissingColumns

\* how many input rows of customer c have vehicle type t
Purchases(c, t) ==
  Cardinality({i \in DOMAIN InputRows :
                 InputRows[i].Customer_ID = c /\ InputRows[i].Vehicle_Type = t})

\* the most frequent vehicle type of customer c, the first in sort order on ties
MostFrequentType(c) ==
  VehicleTypes[MinOf({i \in DOMAIN VehicleTypes :
                        \A j \in DOMAIN VehicleTypes :
                          Purchases(c, VehicleTypes[j]) <= Purchases(c, VehicleTypes[i])})]

\* C2: every row of the table returned by segment_customer_base carries as
\* Primary_Type the most frequent Vehicle_Type among the input rows of the same
\* Customer_ID (first mode on ties), whatever the row labels and Customer_ID
\* values are.
C2_PrimaryType ==
  (op = "segment_customer_base" /\ pc = "done") =>
    \A i \in DOMAIN InputRows :
      segments.Primary_Type[i] = MostFrequentType(InputRows[i].Customer_ID)

PriceOf(i) == InputRows[i].Price_USD

LabelPos(l) == CHOOSE k \in DOMAIN PriceLabels : PriceLabels[k] = l

LabelCount(l) ==
  Cardinality({i \in DOMAIN segments.Price_Category : segments.Price_Category[i] = l})

HasPriceCategory == op = "segment_customer_base" /\ segments.columns # <<>>

\* C10: Price_Category gives every row one of Budget, Value, Mid-Range, Premium,
\* Luxury; the labels never decrease along the rows ordered by (Price_USD, row
\* position); and the numbers of rows of any two labels differ by at most one.
\* This covers the one-row table, where the quantile edges coincide and the
\* equal-width fallback assigns the label.
C10_PriceCategory ==
  HasPriceCategory =>
    /\ DOMAIN segments.Price_Category = DOMAIN InputRows
    /\ \A i \in DOMAIN InputRows : segments.Price_Category[i] \in Range(PriceLabels)
    /\ \A i, j \in DOMAIN InputRows :
         (PriceOf(i) < PriceOf(j) \/ (PriceOf(i) = PriceOf(j) /\ i < j)) =>
           LabelPos(segments.Price_Category[i]) <= LabelPos(segments.Price_Category[j])
    /\ \A a, b \in Range(PriceLabels) : LabelCount(a) <= LabelCount(b) + 1

\* six rows with repeated prices: one label is carried by two rows, and two rows
\* of equal price carry different labels
C10_Witness ==
  /\ HasPriceCategory
  /\ pc = "done"
  /\ Len(InputRows) = 6
  /\ \E a \in Range(PriceLabels) : LabelCount(a) = 2
  /\ \E i, j \in DOMAIN InputRows :
       PriceOf(i) = PriceOf(j) /\ segments.Price_Category[i] # segments.Price_Category[j]

\* how many input rows belong to the customer of row i
PurchasesOf(i) ==
  Cardinality({j \in DOMAIN InputRows : InputRows[j].Customer_ID = InputRows[i].Customer_ID})

FrequencyPos(l) == CHOOSE k \in DOMAIN FrequencyLabels : FrequencyLabels[k] = l

\* C11: Purchase_Frequency is an attribute of the customer: two rows of the
\* returned table with the same Customer_ID carry the same label, and a row
\* whose customer has strictly more purchases than another row's customer never
\* carries a lower label (Low < Medium < High).
C11_PurchaseFrequency ==
  (op = "segment_customer_base" /\ pc = "done") =>
    \A i, j \in DOMAIN InputRows :
      /\ InputRows[i].Customer_ID = InputRows[j].Customer_ID =>
           segments.Purchase_Frequency[i] = segments.Purchase_Frequency[j]
      /\ PurchasesOf(i) < PurchasesOf(j) =>
           FrequencyPos(segments.Purchase_Frequency[i])
             <= FrequencyPos(segments.Purchase_Frequency[j])

====
